---- MODULE Spec2Model ----
(***************************************************************************)
(* aptcron: a cron job that lists pending APT upgrades and mails them.     *)
(* The model follows src/aptcron.py statement by statement: one run of the *)
(* script is a walk of pc from "check_root" to "done"; the seen-cache file *)
(* and its directory are the only state that survives from run to run.     *)
(***************************************************************************)
EXTENDS Integers, Sequences, FiniteSets, TLC

\* ------------------------------------------------------------- bounds
\* Longest list of pending upgrades the package manager reports in one run.
MaxPending == 1

\* ------------------------------------------------------------ packages
\* (name, candidate version, installed version), as built at line 191.
Packages == { <<"foo", "2.0", "1.0">>, <<"bar", "1.1", "1.0">> }

RECURSIVE NoRepeat(_)
NoRepeat(s) ==
    IF Len(s) <= 1 THEN TRUE
    ELSE /\ \A i \in 2..Len(s) : s[i] # s[1]
         /\ NoRepeat(Tail(s))

\* cache.get_changes(): each changed package once, in the manager's order.
get_changes ==
    UNION { { s \in [1..n -> Packages] : NoRepeat(s) } : n \in 0..MaxPending }

\* ------------------------------------------------- the seen-cache on disk
\* SEEN_CACHE as the file system holds it: absent, a pickled list, or bytes
\* that pickle cannot read.
NoFile == [state |-> "absent", data |-> <<>>]
Corrupt == [state |-> "corrupt", data |-> <<>>]
Pickled(list) == [state |-> "pickle", data |-> list]

\* Mutant: the test looks at a path that is never there.
exists_never(f) == FALSE

\* os.path.exists(SEEN_CACHE)
exists(file) == file.state # "absent"

\* Mutant: unreadable bytes are taken for an empty list.
load_raises_never(f) == FALSE

\* pickle.load(open(SEEN_CACHE)) raises on bytes that are no pickle.
load_raises(file) == file.state = "corrupt"

\* pickle.load(open(SEEN_CACHE)) of a file pickle.dump wrote.
load(file) == file.data

\* ------------------------------------------------------- configuration
BoolKeys == {"no-update", "only-new", "force", "no-mail"}
TextKeys == {"mail-subject", "smtp-user", "smtp-password", "smtp-starttls"}
Keys == BoolKeys \cup TextKeys

DefaultSubject == "[aptcron] {shorthost}: {num} APT updates"
\* a subject that does not mention the number of updates
PlainSubject == "[aptcron] {shorthost}"

\* The replacement fields str.format looks up in the context.
fields(template) ==
    CASE template = DefaultSubject -> {"shorthost", "num"}
      [] template = PlainSubject -> {"shorthost"}
      [] OTHER -> {}

\* The defaults handed to ConfigParser.
Defaults ==
    [k \in Keys |->
        CASE k \in BoolKeys -> "no"
          [] k = "mail-subject" -> DefaultSubject
          [] k = "smtp-user" -> ""
          [] k = "smtp-password" -> ""
          [] k = "smtp-starttls" -> "force"]

\* Values a config file may give a key of the selected section.
FileValues(k) ==
    CASE k \in BoolKeys -> {"yes"}
      [] k = "mail-subject" -> {PlainSubject}
      [] k = "smtp-user" -> {"aptcron"}
      [] k = "smtp-password" -> {"secret"}
      [] k = "smtp-starttls" -> {"no", "yes"}

Unset == "<unset>"
None == "<None>"

\* All functions on ks that take at each key one of dom[key].
RECURSIVE Product(_, _)
Product(ks, dom) ==
    IF ks = {} THEN { [k \in {} |-> Unset] }
    ELSE LET k == CHOOSE x \in ks : TRUE
         IN  { (k :> v) @@ f : v \in dom[k], f \in Product(ks \ {k}, dom) }

\* The selected section as the files give it: every key is unset or set.
FileSections == Product(Keys, [k \in Keys |-> FileValues(k) \cup {Unset}])

\* config.read(configfiles): a key the files leave unset falls back to the defaults.
read(file) == [k \in Keys |-> IF file[k] = Unset THEN Defaults[k] ELSE file[k]]

\* The command line: a store_true flag is "yes" when given, every other
\* option is None unless given.
CliValues(k) ==
    CASE k \in BoolKeys -> {None, "yes"}
      [] k = "mail-subject" -> {None}
      [] k = "smtp-user" -> {None}
      [] k = "smtp-password" -> {None}
      [] k = "smtp-starttls" -> {None, "no", "yes", "force"}

\* parser.parse_args()
parse_args == Product(Keys, [k \in Keys |-> CliValues(k)])

\* "if args.x:" - the truth value Python gives a parsed argument.
truthy(v) == v \notin {None, ""}

\* Lines 103-126: config.set(args.section, key, ...) for every argument given.
override(opt, a) == [k \in Keys |-> IF truthy(a[k]) THEN a[k] ELSE opt[k]]

\* Lines 103-126 on a section no parsed file defines: the first config.set raises.
set_raises(has_section, a) == ~has_section /\ \E k \in Keys : truthy(a[k])

\* Mutant: every boolean option reads as enabled.
getboolean_always(opt, k) == TRUE

\* config.getboolean(args.section, key)
getboolean(opt, k) == opt[k] = "yes"

\* --------------------------------------------------------------- output
\* One line of text; num, pkg and etype are filled where the kind has them.
Line(kind, num, pkg, etype) == [kind |-> kind, num |-> num, pkg |-> pkg, etype |-> etype]
RootMessage == Line("aptcron requires root-privileges to run.", 0, <<>>, "")
HeaderNew(num) == Line("{num} available update(s), new since the last mail:", num, <<>>, "")
HeaderPlain(num) == Line("{num} available update(s):", num, <<>>, "")
NoPackages == Line("No packages found.", 0, <<>>, "")
UpdateLine(p) == Line("* %s: %s -> %s", 0, p, "")
Blank == Line("", 0, <<>>, "")
Trailer == Line("Please update all packages at your earliest convenience.", 0, <<>>, "")
ErrorLine(etype) == Line("%s: %s", 0, <<>>, etype)

RECURSIVE lstrip(_)
lstrip(text) ==
    IF text # <<>> /\ Head(text) = Blank THEN lstrip(Tail(text)) ELSE text

RECURSIVE rstrip(_)
rstrip(text) ==
    IF text # <<>> /\ text[Len(text)] = Blank
    THEN rstrip(SubSeq(text, 1, Len(text) - 1))
    ELSE text

\* sys.stdout.getvalue().strip()
strip(text) == rstrip(lstrip(text))

\* ---------------------------------------------------------------- mail
\* What the relay does to each call smtplib makes on one connection.
Relays ==
    [connect : BOOLEAN, starttls : {"ok", "SMTPException", "SSLError"},
     login : BOOLEAN, sendmail : BOOLEAN, quit : BOOLEAN]

NotCalled == "-"
\* No smtplib call has been made.
NoSession ==
    [connect |-> NotCalled, starttls |-> NotCalled, login |-> NotCalled,
     sendmail |-> NotCalled, quit |-> NotCalled]

\* Line 149: the modes in which s.starttls() is called.
starttls_wanted(mode) == mode \in {"yes", "force"}

\* Mutant: "force" is treated like "yes".
starttls_required_never(mode) == FALSE

\* Line 153: the modes in which an SMTPException of s.starttls() is fatal.
starttls_required(mode) == mode = "force"

\* Line 158: "if user and password"
login_wanted(user, password) == user # "" /\ password # ""

\* Lines 139-141: config.get(...).format(**context) of the header templates.
format_error(has_section, opt, ctx) ==
    IF ~has_section THEN "NoSectionError"
    ELSE IF ~(fields(opt["mail-subject"]) \subseteq DOMAIN ctx) THEN "KeyError"
    ELSE ""

\* Lines 138-162: the body of the try block, up to the first exception.
\* smtp: the result of each smtplib call; etype: the exception that left the
\* block, "" if none; sent: whether the relay accepted the message.
try_send(has_section, opt, ctx, relay) ==
    LET mode == opt["smtp-starttls"]
        hdr == format_error(has_section, opt, ctx)
        s1 == [NoSession EXCEPT !.connect = IF relay.connect THEN "ok" ELSE "socket.error"]
        s2 == IF starttls_wanted(mode) THEN [s1 EXCEPT !.starttls = relay.starttls] ELSE s1
        tlsErr == IF s2.starttls = "SSLError" THEN "SSLError"
                  ELSE IF s2.starttls = "SMTPException" /\ starttls_required(mode)
                       THEN "RuntimeError"
                       ELSE ""
        s3 == IF login_wanted(opt["smtp-user"], opt["smtp-password"])
              THEN [s2 EXCEPT !.login = IF relay.login THEN "ok" ELSE "SMTPAuthenticationError"]
              ELSE s2
        s4 == [s3 EXCEPT !.sendmail = IF relay.sendmail THEN "ok" ELSE "SMTPRecipientsRefused"]
        s5 == [s4 EXCEPT !.quit = IF relay.quit THEN "ok" ELSE "SMTPServerDisconnected"]
    IN  IF hdr # "" THEN [smtp |-> NoSession, etype |-> hdr, sent |-> FALSE]
        ELSE IF s1.connect # "ok" THEN [smtp |-> s1, etype |-> s1.connect, sent |-> FALSE]
        ELSE IF tlsErr # "" THEN [smtp |-> s2, etype |-> tlsErr, sent |-> FALSE]
        ELSE IF s3.login \notin {NotCalled, "ok"}
             THEN [smtp |-> s3, etype |-> s3.login, sent |-> FALSE]
        ELSE IF s4.sendmail # "ok" THEN [smtp |-> s4, etype |-> s4.sendmail, sent |-> FALSE]
        ELSE IF s5.quit # "ok" THEN [smtp |-> s5, etype |-> s5.quit, sent |-> TRUE]
        ELSE [smtp |-> s5, etype |-> "", sent |-> TRUE]

\* Mutant: the failure leaves the caller's code in place.
failure_code_kept(code) == code

\* Line 165: the exit code after a failed delivery.
failure_code(code) == 2

\* -------------------------------------------------------- report, cache
\* Mutant: the test of line 197 is inverted.
filter_new_inverted(pkgs, old) ==
    SelectSeq(pkgs, LAMBDA p : \E i \in 1..Len(old) : old[i] = p)

\* Mutant: line 197 is missing.
filter_new_all(pkgs, old) == pkgs

\* Line 197: [p for p in packages if p not in seen]
filter_new(pkgs, old) ==
    SelectSeq(pkgs, LAMBDA p : \A i \in 1..Len(old) : old[i] # p)

\* Mutant: the test of the loaded list is dropped.
header_is_new_always(only_new, old) == only_new

\* Line 200: which header a non-empty list gets.
header_is_new(only_new, old) == only_new /\ old # <<>>

\* Lines 199-206: the header of the report.
header(opt, pkgs, old, num) ==
    IF pkgs # <<>>
    THEN IF header_is_new(getboolean(opt, "only-new"), old)
         THEN << HeaderNew(num) >>
         ELSE << HeaderPlain(num) >>
    ELSE IF getboolean(opt, "force") THEN << NoPackages >> ELSE <<>>

\* Lines 208-209: one line per package, in list order.
update_lines(pkgs) == [i \in 1..Len(pkgs) |-> UpdateLine(pkgs[i])]

\* Mutant: the seen-cache is never removed.
reset_never(num, file_exists) == FALSE

\* Line 214: when the seen-cache is removed instead of written.
reset(num, file_exists) == num = 0 /\ file_exists

\* Mutant: the new updates replace the baseline.
dump_replace(old, pkgs) == pkgs

\* Line 217: what pickle.dump writes.
dump(old, pkgs) == old \o pkgs

\* ---------------------------------------------------------------- state
VARIABLES
    seenFile,     \* SEEN_CACHE on disk
    cacheDir,     \* whether CACHE_DIR exists
    pc,           \* the statement the process is at; "idle": no process runs
    uid,          \* os.getuid()
    no_mail,      \* args.no_mail
    has_section,  \* whether config knows args.section
    config,       \* the options of args.section after lines 79-126
    context,      \* the context for string formatting
    captured,     \* sys.stdout = sys.stderr, the StringIO buffer
    packages,     \* the list of line 191, filtered at line 197
    seen,         \* the list of line 194
    exc,          \* the exception on its way to line 224
    code,         \* send_mail's code argument
    caller,       \* the call of send_mail that is running
    refreshed,    \* cache.update() was called
    listed,       \* cache.open(None), cache.upgrade() were called
    out,          \* what was printed to the real stdout, one entry per print
    err,          \* what was printed to the real stderr, one entry per print
    smtp,         \* the result of each smtplib call of the run
    sent,         \* the relay accepted the message
    dispatched,   \* calls of send_mail in this run
    exit_code,    \* the exit status, -1 while the process runs
    seen_before,  \* history: SEEN_CACHE when the process started
    dir_before,   \* history: whether CACHE_DIR existed when the process started
    pending,      \* history: the list of line 191 before the filter of line 197
    touched,      \* history: the process has looked at or changed SEEN_CACHE or CACHE_DIR
    undelivered,  \* history: the pending list of the previous run, if that run was
                  \* an only-new run with new updates whose mail failed; else empty
    cli,          \* args, whole; held under ResolveSpec only: a run keeps of it
                  \* what the script reads after line 126, no_mail and config
    file          \* the selected section as the config files give it; held
                  \* under ResolveSpec only

disk == << seenFile, cacheDir >>
input == << uid, no_mail, has_section, config >>
body_vars == << context, captured, packages, seen, exc, refreshed, listed, pending >>
call_vars == << code, caller >>
mail_vars == << out, err, smtp, sent, dispatched, exit_code >>
history == << seen_before, dir_before, undelivered >>
resolution == << cli, file >>
vars == << disk, pc, input, body_vars, call_vars, mail_vars, history, touched, resolution >>

NoException == [etype |-> "", at |-> ""]
Raised(etype, at) == [etype |-> etype, at |-> at]

\* Lines 72-76
InitialContext == [host |-> "host.example.org", shorthost |-> "host"]

\* A process before its first statement.
Fresh ==
    /\ uid = 0
    /\ no_mail = FALSE
    /\ has_section = TRUE
    /\ config = Defaults
    /\ context = InitialContext
    /\ captured = <<>>
    /\ packages = <<>>
    /\ seen = <<>>
    /\ exc = NoException
    /\ code = 0
    /\ caller = ""
    /\ refreshed = FALSE
    /\ listed = FALSE
    /\ out = <<>>
    /\ err = <<>>
    /\ smtp = NoSession
    /\ sent = FALSE
    /\ dispatched = 0
    /\ exit_code = -1
    /\ pending = <<>>
    /\ touched = FALSE

\* No argument given, no option set in the files.
NoArgs == [k \in Keys |-> None]
NoOptions == [k \in Keys |-> Unset]

Init ==
    /\ seenFile = NoFile
    /\ cacheDir = FALSE
    /\ pc = "idle"
    /\ seen_before = NoFile
    /\ dir_before = FALSE
    /\ undelivered = <<>>
    /\ cli = NoArgs
    /\ file = NoOptions
    /\ Fresh

\* Lines 70-126 and 170-173: cron starts the script; arguments are parsed, the
\* config files read and the arguments written over the selected section.
\* An argument given for a section no file defines ends the process with the
\* traceback of NoSectionError.
StartRun ==
    /\ pc = "idle"
    /\ \E u \in {0, 1000}, a \in parse_args, hs \in BOOLEAN :
         \E f \in IF hs THEN FileSections ELSE {NoOptions} :
            /\ uid' = u
            /\ no_mail' = truthy(a["no-mail"])
            /\ has_section' = hs
            /\ config' = IF hs THEN override(read(f), a) ELSE Defaults
            /\ IF set_raises(hs, a)
               THEN /\ pc' = "done"
                    /\ exit_code' = 1
                    /\ err' = << << ErrorLine("NoSectionError") >> >>
               ELSE /\ pc' = "check_root"
                    /\ UNCHANGED << exit_code, err >>
    /\ seen_before' = seenFile
    /\ dir_before' = cacheDir
    /\ UNCHANGED << disk, body_vars, call_vars, out, smtp, sent, dispatched,
                    undelivered, touched, resolution >>

\* Lines 175-177
CheckRoot ==
    /\ pc = "check_root"
    /\ IF uid # 0
       THEN /\ captured' = Append(captured, RootMessage)
            /\ code' = 1
            /\ caller' = "root_check"
            /\ pc' = "send_mail"
       ELSE /\ pc' = "query"
            /\ UNCHANGED << captured, code, caller >>
    /\ UNCHANGED << disk, input, context, packages, seen, exc, refreshed, listed,
                    pending, mail_vars, history, touched, resolution >>

\* Lines 181-192: open the APT cache, refresh the index, list the upgrades.
Query ==
    /\ pc = "query"
    /\ \/ \* apt.Cache() raises
          /\ exc' = Raised("SystemError", "Cache")
          /\ pc' = "except"
          /\ UNCHANGED << context, packages, pending, refreshed, listed >>
       \/ \* config.getboolean raises on the unknown section
          /\ ~has_section
          /\ exc' = Raised("NoSectionError", "config")
          /\ pc' = "except"
          /\ UNCHANGED << context, packages, pending, refreshed, listed >>
       \/ \* cache.update() raises
          /\ has_section
          /\ ~getboolean(config, "no-update")
          /\ refreshed' = TRUE
          /\ exc' = Raised("FetchFailedException", "update")
          /\ pc' = "except"
          /\ UNCHANGED << context, packages, pending, listed >>
       \/ \* cache.open(None) or cache.upgrade() raises
          /\ has_section
          /\ refreshed' = ~getboolean(config, "no-update")
          /\ listed' = TRUE
          /\ exc' = Raised("SystemError", "upgrade")
          /\ pc' = "except"
          /\ UNCHANGED << context, packages, pending >>
       \/ \E changes \in get_changes :
          /\ has_section
          /\ refreshed' = ~getboolean(config, "no-update")
          /\ listed' = TRUE
          /\ packages' = changes
          /\ pending' = changes
          /\ context' = [host |-> context.host, shorthost |-> context.shorthost,
                         num |-> Len(changes)]
          /\ pc' = "filter"
          /\ UNCHANGED exc
    /\ UNCHANGED << disk, input, captured, seen, call_vars, mail_vars, history,
                    touched, resolution >>

\* Lines 194-197
Filter ==
    /\ pc = "filter"
    /\ IF getboolean(config, "only-new") /\ exists(seenFile)
       THEN IF load_raises(seenFile)
            THEN /\ exc' = Raised("UnpicklingError", "load")
                 /\ pc' = "except"
                 /\ UNCHANGED << seen, packages >>
            ELSE /\ seen' = load(seenFile)
                 /\ packages' = filter_new(packages, load(seenFile))
                 /\ pc' = "format"
                 /\ UNCHANGED exc
       ELSE /\ seen' = <<>>
            /\ pc' = "format"
            /\ UNCHANGED << packages, exc >>
    /\ touched' = (touched \/ getboolean(config, "only-new"))
    /\ UNCHANGED << disk, input, context, captured, refreshed, listed, pending,
                    call_vars, mail_vars, history, resolution >>

\* Lines 199-209
Format ==
    /\ pc = "format"
    /\ captured' = captured \o header(config, packages, seen, context.num)
                            \o update_lines(packages)
    /\ pc' = "commit"
    /\ UNCHANGED << disk, input, context, packages, seen, exc, refreshed, listed,
                    pending, call_vars, mail_vars, history, touched, resolution >>

\* Lines 211-217
Commit ==
    /\ pc = "commit"
    /\ IF getboolean(config, "only-new")
       THEN /\ cacheDir' = TRUE
            /\ seenFile' = IF reset(context.num, exists(seenFile))
                           THEN NoFile
                           ELSE Pickled(dump(seen, packages))
       ELSE UNCHANGED << seenFile, cacheDir >>
    /\ touched' = (touched \/ getboolean(config, "only-new"))
    /\ pc' = "finish"
    /\ UNCHANGED << input, body_vars, call_vars, mail_vars, history, resolution >>

\* Lines 219-223
Finish ==
    /\ pc = "finish"
    /\ captured' = IF packages # <<>> THEN captured \o << Blank, Trailer >> ELSE captured
    /\ code' = 0
    /\ caller' = "main"
    /\ pc' = "send_mail"
    /\ UNCHANGED << disk, input, context, packages, seen, exc, refreshed, listed,
                    pending, mail_vars, history, touched, resolution >>

\* Lines 224-226
Except ==
    /\ pc = "except"
    /\ captured' = Append(captured, ErrorLine(exc.etype))
    /\ code' = 1
    /\ caller' = "except"
    /\ pc' = "send_mail"
    /\ UNCHANGED << disk, input, context, packages, seen, exc, refreshed, listed,
                    pending, mail_vars, history, touched, resolution >>

\* Lines 128-167: send_mail. It ends the process with sys.exit, except that
\* the return of line 136 hands control back to the caller: the root check
\* falls through to the try block, the two calls inside it reach the end of
\* the script, which exits with 0.
SendMail ==
    /\ pc = "send_mail"
    /\ dispatched' = dispatched + 1
    /\ LET body == strip(captured) IN
       \/ /\ no_mail
          /\ out' = Append(out, body)
          /\ exit_code' = code
          /\ pc' = "done"
          /\ UNCHANGED << err, smtp, sent >>
       \/ /\ ~no_mail
          /\ body = <<>>
          /\ IF caller = "root_check"
             THEN pc' = "query" /\ UNCHANGED exit_code
             ELSE pc' = "done" /\ exit_code' = 0
          /\ UNCHANGED << out, err, smtp, sent >>
       \/ /\ ~no_mail
          /\ body # <<>>
          /\ \E relay \in Relays :
               LET r == try_send(has_section, config, context, relay) IN
               /\ smtp' = r.smtp
               /\ sent' = r.sent
               /\ IF r.etype # ""
                  THEN /\ err' = Append(err, << ErrorLine(r.etype) >>)
                       /\ exit_code' = failure_code(code)
                  ELSE /\ exit_code' = code
                       /\ UNCHANGED err
          /\ pc' = "done"
          /\ UNCHANGED out
    /\ UNCHANGED << disk, input, body_vars, call_vars, history, touched, resolution >>

\* The process is gone; what it leaves behind is the disk.
Exit ==
    /\ pc = "done"
    /\ pc' = "idle"
    /\ uid' = 0
    /\ no_mail' = FALSE
    /\ has_section' = TRUE
    /\ config' = Defaults
    /\ context' = InitialContext
    /\ captured' = <<>>
    /\ packages' = <<>>
    /\ seen' = <<>>
    /\ exc' = NoException
    /\ code' = 0
    /\ caller' = ""
    /\ refreshed' = FALSE
    /\ listed' = FALSE
    /\ out' = <<>>
    /\ err' = <<>>
    /\ smtp' = NoSession
    /\ sent' = FALSE
    /\ dispatched' = 0
    /\ exit_code' = -1
    /\ pending' = <<>>
    /\ touched' = FALSE
    /\ seen_before' = seenFile
    /\ dir_before' = cacheDir
    /\ undelivered' = IF /\ caller = "main"
                         /\ config["only-new"] = "yes"
                         /\ packages # <<>>
                         /\ exit_code = 2
                      THEN pending
                      ELSE <<>>
    /\ UNCHANGED << disk, resolution >>

\* Environment: something other than aptcron overwrites the seen-cache.
DamageCache ==
    /\ pc = "idle"
    /\ seenFile.state = "pickle"
    /\ seenFile' = Corrupt
    /\ seen_before' = Corrupt
    /\ UNCHANGED << cacheDir, pc, input, body_vars, call_vars, mail_vars,
                    dir_before, undelivered, touched, resolution >>

Next ==
    \/ StartRun
    \/ CheckRoot
    \/ Query
    \/ Filter
    \/ Format
    \/ Commit
    \/ Finish
    \/ Except
    \/ SendMail
    \/ Exit
    \/ DamageCache

Spec == Init /\ [][Next]_vars

\* ------------------------------------------- the resolution of the policy
\* Lines 70-126 alone, over every argument list and every config section,
\* arguments given with an empty value included.
ResolveCliValues(k) ==
    CASE k \in BoolKeys -> {None, "yes"}
      [] k = "mail-subject" -> {None, PlainSubject}
      [] k = "smtp-user" -> {None, "", "root"}
      [] k = "smtp-password" -> {None, ""}
      [] k = "smtp-starttls" -> {None, "no", "yes", "force"}

ResolveInit ==
    /\ seenFile = NoFile
    /\ cacheDir = FALSE
    /\ pc = "parse_args"
    /\ seen_before = NoFile
    /\ dir_before = FALSE
    /\ undelivered = <<>>
    /\ cli \in Product(Keys, [k \in Keys |-> ResolveCliValues(k)])
    /\ file \in FileSections
    /\ Fresh

\* Lines 79-126
Resolve ==
    /\ pc = "parse_args"
    /\ config' = override(read(file), cli)
    /\ no_mail' = truthy(cli["no-mail"])
    /\ pc' = "resolved"
    /\ UNCHANGED << disk, uid, has_section, body_vars, call_vars, mail_vars,
                    history, touched, resolution >>

ResolveNext == Resolve

ResolveSpec == ResolveInit /\ [][ResolveNext]_vars

TypeOK ==
    /\ pc \in {"idle", "check_root", "query", "filter", "format", "commit",
               "finish", "except", "send_mail", "done"}
    /\ seenFile.state \in {"absent", "pickle", "corrupt"}
    /\ exit_code \in {-1, 0, 1, 2}
    /\ dispatched \in 0..1

\* --------------------------------------------------------------- claims
Calls == {"connect", "starttls", "login", "sendmail", "quit"}

\* The smtplib call c was made and raised.
failed(c) == smtp[c] \notin {NotCalled, "ok"}

\* No smtplib call of the run raised.
TransportWorked == \A c \in Calls : ~failed(c)

\* The process has ended after one call of send_mail.
Dispatched == pc = "done" /\ dispatched = 1

\* send_mail took the mail branch with a non-empty body.
MailDispatch == Dispatched /\ ~no_mail /\ strip(captured) # <<>>

\* The effective policy of the run.
policy(k) == getboolean(config, k)

\* C1: a run without root privileges, under any effective policy, whose
\* delivery channel works (--no-mail, or no smtplib call fails) exits with 1,
\* has captured exactly the privilege message and never asked the package
\* manager for a refresh or a listing.
C1_NonRootExitsOne ==
    (Dispatched /\ uid # 0 /\ has_section /\ (no_mail \/ TransportWorked))
        => /\ exit_code = 1
           /\ captured = << RootMessage >>
           /\ ~refreshed
           /\ ~listed

\* C2: when the index refresh or the upgrade listing raises in a root run,
\* under any effective policy, the error line ends the captured output,
\* send_mail is called once with code 1, the report reaches the delivery
\* channel (printed under --no-mail, sent when no smtplib call fails) and the
\* process exits with 1.
C2_QueryErrorIsReported ==
    (pc = "done" /\ uid = 0 /\ has_section /\ exc.at \in {"update", "upgrade"})
        => /\ captured # <<>>
           /\ captured[Len(captured)] = ErrorLine(exc.etype)
           /\ dispatched = 1
           /\ code = 1
           /\ no_mail => out = << strip(captured) >>
           /\ (~no_mail /\ TransportWorked) => sent
           /\ (no_mail \/ TransportWorked) => exit_code = 1

\* C3 as stated: in a mail dispatch of a non-empty report with code c, a
\* failure of connect, TLS negotiation, authentication or send is written to
\* the error channel and the exit code is 2; if all of them succeed the exit
\* code is c.
C3_AnyFailureExitsTwo ==
    MailDispatch
        => /\ (\E c \in {"connect", "starttls", "login", "sendmail"} : failed(c))
                => (exit_code = 2 /\ err # <<>>)
           /\ (smtp.connect = "ok" /\ smtp.sendmail = "ok"
               /\ ~failed("starttls") /\ ~failed("login"))
                => exit_code = code

\* C3 amended: in a mail dispatch of a non-empty report with code c, a failure
\* of connect, authentication or send, and a failure of TLS negotiation other
\* than an SMTPException under smtp-starttls = "yes", is written to the error
\* channel and the exit code is 2; a failure of the closing quit does the
\* same; if connect, send and quit succeed the exit code is c.
C3_FatalFailureExitsTwo ==
    MailDispatch
        => /\ ( \/ failed("connect") \/ failed("login") \/ failed("sendmail")
                \/ failed("quit")
                \/ (failed("starttls")
                    /\ ~(config["smtp-starttls"] = "yes" /\ smtp.starttls = "SMTPException")) )
                => (exit_code = 2 /\ Len(err) = 1)
           /\ (smtp.connect = "ok" /\ smtp.sendmail = "ok" /\ smtp.quit = "ok")
                => (exit_code = code /\ err = <<>> /\ sent)

\* C3 witness: a report with code 1 goes out under "yes" although STARTTLS
\* raised SMTPException, and the process exits with 1.
C3_Witness ==
    /\ MailDispatch
    /\ code = 1
    /\ smtp.starttls = "SMTPException"
    /\ smtp.quit = "ok"
    /\ exit_code = 1

\* C4: on every connection send_mail opens: with smtp-starttls = "no"
\* starttls is never called; with "yes" or "force" it is called; under "yes"
\* an SMTPException of starttls leaves login (when user and password are set)
\* and sendmail to go on; under "force" it ends the dispatch with neither login
\* nor sendmail called, no mail sent and exit code 2.
C4_StartTlsPolicy ==
    (pc = "done" /\ smtp.connect = "ok")
        => LET mode == config["smtp-starttls"]
               refused == smtp.starttls = "SMTPException"
           IN  /\ mode = "no" => smtp.starttls = NotCalled
               /\ mode \in {"yes", "force"} => smtp.starttls # NotCalled
               /\ (mode = "yes" /\ refused)
                    => /\ (config["smtp-user"] # "" /\ config["smtp-password"] # "")
                            <=> smtp.login # NotCalled
                       /\ ~failed("login") => smtp.sendmail # NotCalled
               /\ (mode = "force" /\ refused)
                    => /\ smtp.login = NotCalled
                       /\ smtp.sendmail = NotCalled
                       /\ ~sent
                       /\ exit_code = 2

\* C4 witness: "force" against a relay that refuses STARTTLS.
C4_Witness ==
    /\ pc = "done"
    /\ config["smtp-starttls"] = "force"
    /\ smtp.starttls = "SMTPException"
    /\ exit_code = 2

\* The run went through the whole try block: its send_mail is the one of line 223.
Completed == pc = "done" /\ caller = "main"

\* C5: an only-new run without force whose pending updates (more than none)
\* are all in the loaded baseline has an empty report, sends no mail, delivers
\* nothing, exits with 0 and leaves the baseline file in place with the
\* contents it had.
C5_NothingNewNothingDelivered ==
    (Completed /\ policy("only-new") /\ ~policy("force")
     /\ context.num > 0 /\ packages = <<>>)
        => /\ captured = <<>>
           /\ ~sent
           /\ smtp = NoSession
           /\ out = <<>>
           /\ exit_code = 0
           /\ exists(seenFile)
           /\ seenFile = seen_before

\* C6 as stated: after a completed only-new run with no pending upgrade at
\* all, no baseline file exists, whatever was there before.
C6_ZeroTotalLeavesNoFile ==
    (Completed /\ policy("only-new") /\ context.num = 0)
        => ~exists(seenFile)

\* C6 amended: after a completed only-new run with no pending upgrade at all,
\* a baseline file that existed before the run is gone, and where none
\* existed a file holding the empty list has been written; either way the
\* next load yields the empty baseline.
C6_ZeroTotalLeavesEmptyBaseline ==
    (Completed /\ policy("only-new") /\ context.num = 0)
        => /\ exists(seen_before) => seenFile = NoFile
           /\ ~exists(seen_before) => seenFile = Pickled(<<>>)
           /\ load(seenFile) = <<>>

\* C6 witness: a non-empty baseline is removed by a run with nothing pending.
C6_Witness ==
    /\ Completed
    /\ policy("only-new")
    /\ context.num = 0
    /\ seen_before.state = "pickle"
    /\ seen_before.data # <<>>
    /\ seenFile = NoFile

\* C7: right after the commit of an only-new run: if the total count is 0 and
\* a baseline file existed, the file is gone and a load yields the empty
\* baseline; otherwise the file holds the loaded baseline followed by the
\* run's new updates. The total count decides, not the number of new updates.
C7_CommitTransition ==
    (pc = "finish" /\ policy("only-new"))
        => IF context.num = 0 /\ exists(seen_before)
           THEN seenFile = NoFile /\ load(seenFile) = <<>>
           ELSE /\ exists(seenFile)
                /\ seenFile = Pickled(load(seen_before) \o packages)
                /\ cacheDir

\* C7 witness: updates are pending but none is new; the file is written, not removed.
C7_Witness ==
    /\ pc = "finish"
    /\ policy("only-new")
    /\ context.num > 0
    /\ packages = <<>>
    /\ seenFile = seen_before
    /\ seenFile.state = "pickle"

\* C8: whenever the effective policy has no-mail enabled, by a config file or
\* by the flag, send_mail prints the report to standard output, makes no
\* smtplib call, sends nothing and exits with the code it was given.
C8_NoMailPolicyPrints ==
    (Dispatched /\ has_section /\ policy("no-mail"))
        => /\ out = << strip(captured) >>
           /\ smtp = NoSession
           /\ ~sent
           /\ exit_code = code

\* C9: with an empty report send_mail does nothing, with or without no-mail:
\* no mail, nothing on standard output, nothing on the error channel, exit 0.
C9_EmptyReportIsNoOp ==
    (Dispatched /\ strip(captured) = <<>>)
        => /\ ~sent
           /\ out = <<>>
           /\ err = <<>>
           /\ exit_code = 0

\* C10 as stated: the header of a non-empty list is the "new since the last
\* mail" variant when only-new is on and a baseline file existed when the run
\* started, and the plain variant otherwise.
C10_HeaderByFileExistence ==
    (pc = "commit" /\ packages # <<>>)
        => Head(captured) =
             IF policy("only-new") /\ exists(seen_before)
             THEN HeaderNew(context.num)
             ELSE HeaderPlain(context.num)

\* C10 amended: the header of a non-empty list is the "new since the last
\* mail" variant when only-new is on and the baseline loaded at the start of
\* the run is not empty, and the plain variant otherwise (also when the
\* baseline file existed but held the empty list).
C10_HeaderByLoadedBaseline ==
    (pc = "commit" /\ packages # <<>>)
        => Head(captured) =
             IF policy("only-new") /\ load(seen_before) # <<>>
             THEN HeaderNew(context.num)
             ELSE HeaderPlain(context.num)

\* C10 witness: the baseline file exists and is empty; the header is plain.
C10_Witness ==
    /\ pc = "commit"
    /\ packages # <<>>
    /\ policy("only-new")
    /\ seen_before = Pickled(<<>>)
    /\ Head(captured) = HeaderPlain(context.num)

\* The elements of a list.
Range(list) == { list[i] : i \in 1..Len(list) }

\* How often p is in a list.
Count(list, p) == Cardinality({ i \in 1..Len(list) : list[i] = p })

\* The run is an only-new run (read from the option itself).
OnlyNewRun == has_section /\ config["only-new"] = "yes"

\* C11: right after the commit of an only-new run with updates pending, a
\* load yields every element of the baseline loaded at the start of the run
\* and every pending update of the run; the set of baseline elements has not
\* shrunk.
C11_CommitAccumulates ==
    (pc = "finish" /\ OnlyNewRun /\ context.num > 0)
        => /\ exists(seenFile)
           /\ ~load_raises(seenFile)
           /\ Range(load(seen_before)) \subseteq Range(load(seenFile))
           /\ Range(pending) \subseteq Range(load(seenFile))

\* C11 witness: a baseline with one update gains a second one.
C11_Witness ==
    /\ pc = "finish"
    /\ OnlyNewRun
    /\ seen_before.state = "pickle"
    /\ seen_before.data # <<>>
    /\ Range(pending) \ Range(seen_before.data) # {}
    /\ Len(load(seenFile)) > Len(seen_before.data)

\* C12 as stated, at the only step that could repeat a tuple (every tuple of
\* the file comes from a pending list, and no pending list repeats one): an
\* only-new run whose pending list holds a tuple of the baseline appends it
\* again, so the file written holds it more than once.
C12_SeenTupleIsAppendedAgain ==
    (pc = "finish" /\ OnlyNewRun /\ seen_before.state = "pickle")
        => \A p \in Range(pending) \cap Range(seen_before.data) :
              Count(load(seenFile), p) > 1

\* C12 amended: the baseline file never holds a tuple more than once: line 197
\* removes from the pending list every tuple of the loaded baseline before
\* line 217 appends the rest.
C12_BaselineHasNoRepeat ==
    seenFile.state = "pickle" => NoRepeat(seenFile.data)

\* C12 witness: a second only-new run reports a tuple of the baseline again;
\* the file written holds it once.
C12_Witness ==
    /\ pc = "finish"
    /\ OnlyNewRun
    /\ seen_before.state = "pickle"
    /\ \E p \in Range(pending) \cap Range(seen_before.data) :
          Count(load(seenFile), p) = 1

\* C13: when no parsed file defines the selected section, whatever arguments
\* are given, the process ends through send_mail, called once with code 1;
\* in a root run the NoSectionError line ends the report; the report reaches
\* the delivery channel and the exit code is 1 when delivery works.
C13_UnknownSectionIsReported ==
    (pc = "done" /\ ~has_section)
        => /\ dispatched = 1
           /\ code = 1
           /\ uid = 0 => (captured # <<>>
                          /\ captured[Len(captured)] = ErrorLine("NoSectionError"))
           /\ no_mail => out = << strip(captured) >>
           /\ (~no_mail /\ TransportWorked) => sent
           /\ (no_mail \/ TransportWorked) => exit_code = 1

\* C14: in every run send_mail is called exactly once, sendmail is called at
\* most once, and nothing of the pipeline runs once send_mail has been
\* called: the process is at its end.
C14_SingleDispatch ==
    /\ dispatched <= 1
    /\ pc = "done" => dispatched = 1
    /\ dispatched > 0 => pc = "done"
    /\ smtp.sendmail # NotCalled => dispatched = 1

\* C15: for every key, the effective value is the argument if the caller gave
\* one, whatever its value, else the value of the selected section, else the
\* default; with no argument given the policy is the merged files and defaults.
C15_SuppliedArgumentWins ==
    pc = "resolved"
        => /\ \A k \in Keys :
                config[k] = IF cli[k] # None THEN cli[k]
                            ELSE IF file[k] # Unset THEN file[k]
                            ELSE Defaults[k]
           /\ cli = NoArgs => config = read(file)

\* C16: an only-new root run that finds a baseline file it cannot
\* deserialize never goes on with an empty baseline: it prints no header and
\* no update line, the error becomes the report, sent with code 1, and the
\* file is neither rewritten nor removed.
C16_CorruptBaselineFailsRun ==
    (OnlyNewRun /\ pc # "idle" /\ seen_before = Corrupt)
        => /\ seenFile = Corrupt
           /\ pc \notin {"format", "commit", "finish"}
           /\ \A i \in 1..Len(captured) :
                 captured[i].kind \notin { HeaderNew(0).kind, HeaderPlain(0).kind,
                                          UpdateLine(<<>>).kind }
           /\ (pc = "done" /\ uid = 0 /\ "num" \in DOMAIN context)
                => /\ exc = Raised("UnpicklingError", "load")
                   /\ captured = << ErrorLine("UnpicklingError") >>
                   /\ caller = "except"
                   /\ code = 1
                   /\ dispatched = 1

\* C16 witness: the run has ended on the unreadable file although updates
\* were pending.
C16_Witness ==
    /\ pc = "done"
    /\ OnlyNewRun
    /\ seen_before = Corrupt
    /\ pending # <<>>
    /\ exc.at = "load"
    /\ seenFile = Corrupt

\* The process ran the whole try block as root.
RootCompleted == Completed /\ uid = 0

\* C17: the commit comes before send_mail and is not undone: when the mail
\* of an only-new run with new updates fails (exit code 2), the baseline file
\* holds these updates at the end of the process; and the next only-new run
\* without force that finds the same pending list has an empty report and
\* sends nothing.
C17_CommitSurvivesFailedMail ==
    /\ (RootCompleted /\ OnlyNewRun /\ packages # <<>> /\ exit_code = 2)
         => /\ exists(seenFile)
            /\ Range(packages) \subseteq Range(load(seenFile))
    /\ (RootCompleted /\ OnlyNewRun /\ config["force"] = "no"
        /\ undelivered # <<>> /\ pending = undelivered
        /\ seen_before.state = "pickle")
         => /\ packages = <<>>
            /\ captured = <<>>
            /\ ~sent
            /\ smtp = NoSession

\* C17 witness: the run after a failed mail finds the same pending list.
C17_Witness ==
    /\ RootCompleted
    /\ OnlyNewRun
    /\ config["force"] = "no"
    /\ undelivered # <<>>
    /\ pending = undelivered
    /\ captured = <<>>
    /\ exit_code = 0

\* C18: a run with only-new disabled never looks at or changes the baseline
\* file or the cache directory; file and directory are as they were when the
\* process started; the list it reports is the whole pending list, one update
\* line per pending update, whatever the baseline holds.
C18_OnlyNewOffLeavesCacheAlone ==
    (pc # "idle" /\ has_section /\ config["only-new"] = "no")
        => /\ ~touched
           /\ seenFile = seen_before
           /\ cacheDir = dir_before
           /\ seen = <<>>
           /\ pc \in {"format", "commit", "finish"} => packages = pending
           /\ pc \in {"commit", "finish"}
                => \A p \in Range(pending) :
                      \E i \in 1..Len(captured) : captured[i] = UpdateLine(p)

\* C18 witness: a baseline holds the pending update and the run, with
\* only-new disabled, reports it all the same.
C18_Witness ==
    /\ pc = "finish"
    /\ has_section
    /\ config["only-new"] = "no"
    /\ pending # <<>>
    /\ seenFile.state = "pickle"
    /\ Range(pending) \subseteq Range(seenFile.data)
    /\ \E i \in 1..Len(captured) : captured[i] = UpdateLine(pending[1])

====
